---- MODULE Spec2Model ----
(***************************************************************************)
(* rubymine-configurator (src/src/main.rs): one run of the command line    *)
(* tool detects the Ruby environment, upserts an interpreter entry into    *)
(* jdk.table.xml, patches RUBY_ARGS in the workspace files and writes the   *)
(* data source pair.                                                       *)
(*                                                                         *)
(* Strings are sequences of tokens.  The characters the code searches for  *)
(* ("(", ")", "/") are tokens of their own; every other token is a run of  *)
(* characters that holds none of them.  An XML document is the tree        *)
(* roxmltree hands to the code; what XmlWriter emits is kept as the tree   *)
(* a later parse of the written text gives (Reparse).                      *)
(***************************************************************************)
EXTENDS Naturals, Sequences, FiniteSets, TLC

VARIABLES
    cwd,        \* the process's working directory (env::current_dir)
    self,       \* the RubyMineInterpreter struct of the run in progress
    pc,         \* position of main: idle, interpreter, minitest, datasources, done, failed
    optionsDir, \* whether <config>/options exists
    jdkTable,   \* content of <config>/options/jdk.table.xml
    workspace,  \* contents of the workspace files find_workspace_files returns
    env,        \* what the run finds around it: RubyMine.app, MYSQL_* variables, ...
    ideaDir,    \* whether <cwd>/.idea exists
    dsXml,      \* content of .idea/dataSources.xml
    dsLocal,    \* content of .idea/dataSources.local.xml
    backups,    \* backup files created so far, in order
    events,     \* what the run in progress printed, copied, created and wrote, in order
    runs,       \* runs started so far
    limit,      \* runs the operator makes
    projects,   \* the directories the operator runs the program in
    prev        \* the run before the one in progress

vars == <<cwd, self, pc, optionsDir, jdkTable, workspace, env, ideaDir,
          dsXml, dsLocal, backups, events, runs, limit, projects, prev>>

----------------------------------------------------------------------------
(* Bounds of the model *)

\* children of a ProjectJdkTable container in a prior document
MaxKids == 2
\* runs of the program in one behaviour
MaxRuns == 2
\* RTEST_RUN_CONFIG_SETTINGS_ID elements of a prior workspace document
MaxSettings == 2

----------------------------------------------------------------------------
(* Strings *)

\* index of the first occurrence of token c in s, 0 when absent (str::find)
Find(s, c) ==
    IF \E i \in 1..Len(s) : s[i] = c
    THEN CHOOSE i \in 1..Len(s) : s[i] = c /\ \A j \in 1..(i-1) : s[j] # c
    ELSE 0

\* index of the last occurrence of token c in s, 0 when absent
FindLast(s, c) ==
    IF \E i \in 1..Len(s) : s[i] = c
    THEN CHOOSE i \in 1..Len(s) : s[i] = c /\ \A j \in (i+1)..Len(s) : s[j] # c
    ELSE 0

\* the tokens of s from index i on (&s[i..])
From(s, i) == SubSeq(s, i, Len(s))

\* index at which the substring "/trees/" starts in s, 0 when absent
FindTrees(s) ==
    LET hit(i) == s[i] = "/" /\ s[i+1] = "trees" /\ s[i+2] = "/"
    IN  IF \E i \in 1..(Len(s)-2) : hit(i)
        THEN CHOOSE i \in 1..(Len(s)-2) : hit(i) /\ \A j \in 1..(i-1) : ~hit(j)
        ELSE 0

\* Path::file_name of an absolute path, "unknown" when it has none
FileName(dir) ==
    LET last == From(dir, FindLast(dir, "/") + 1)
    IN  IF last = <<>> THEN <<"unknown">> ELSE last

extract_worktree_name(current_dir) ==
    LET trees_pos == FindTrees(current_dir)
        after_trees == From(current_dir, trees_pos + 3)
        slash_pos == Find(after_trees, "/")
    IN  IF trees_pos # 0
        THEN IF slash_pos # 0
             THEN SubSeq(after_trees, 1, slash_pos - 1)
             ELSE after_trees
        ELSE FileName(current_dir)

\* the "{scope}/{leaf}" part of the interpreter name
name_part(current_dir) ==
    LET current_dir_name == FileName(current_dir)
        trees_pos == FindTrees(current_dir)
        after_trees == From(current_dir, trees_pos + 3)
        slash_pos == Find(after_trees, "/")
    IN  IF trees_pos # 0
        THEN IF slash_pos # 0
             THEN SubSeq(after_trees, 1, slash_pos - 1) \o <<"/">> \o current_dir_name
             ELSE after_trees \o <<"/">> \o current_dir_name
        ELSE current_dir_name

generate_interpreter_name(current_dir, ruby_version, date) ==
    <<"Ruby ">> \o ruby_version \o <<" ", "(">> \o name_part(current_dir)
        \o <<")", " + shadowenv ">> \o date

\* a variant that differs in one point: the closing parenthesis is not
\* required
is_same_worktree_interpreter_open(current_dir, interpreter_name) ==
    LET current_worktree == extract_worktree_name(current_dir)
        start == Find(interpreter_name, "(")
        rest == From(interpreter_name, start)
        end == IF Find(rest, ")") # 0 THEN Find(rest, ")") ELSE Len(rest) + 1
        path_part == SubSeq(interpreter_name, start + 1, start + end - 2)
        slash_pos == Find(path_part, "/")
    IN  IF start # 0
        THEN IF slash_pos # 0
             THEN SubSeq(path_part, 1, slash_pos - 1) = current_worktree
             ELSE path_part = FileName(current_dir)
                  /\ current_worktree = FileName(current_dir)
        ELSE FALSE

is_same_worktree_interpreter(current_dir, interpreter_name) ==
    LET current_worktree == extract_worktree_name(current_dir)
        start == Find(interpreter_name, "(")
        rest == From(interpreter_name, start)
        end == Find(rest, ")")
        path_part == SubSeq(interpreter_name, start + 1, start + end - 2)
        slash_pos == Find(path_part, "/")
    IN  IF start # 0 /\ end # 0
        THEN IF slash_pos # 0
             THEN SubSeq(path_part, 1, slash_pos - 1) = current_worktree
             ELSE path_part = FileName(current_dir)
                  /\ current_worktree = FileName(current_dir)
        ELSE FALSE

----------------------------------------------------------------------------
(* Documents: the tree roxmltree gives the code *)

Attr(n, v) == [name |-> n, value |-> v]

Elem(tag, attrs, kids) ==
    [kind |-> "element", tag |-> tag, attrs |-> attrs, kids |-> kids, text |-> <<>>]

Text(t) ==
    [kind |-> "text", tag |-> "", attrs |-> <<>>, kids |-> <<>>, text |-> t]

Comment(t) ==
    [kind |-> "comment", tag |-> "", attrs |-> <<>>, kids |-> <<>>, text |-> t]

\* Node::is_element, Node::is_text
is_element(n) == n.kind = "element"
is_text(n) == n.kind = "text"

\* Node::attribute(name).is_some()
has_attribute(n, name) == \E i \in 1..Len(n.attrs) : n.attrs[i].name = name

\* Node::attribute(name), for a node that has it
attribute(n, name) == n.attrs[CHOOSE i \in 1..Len(n.attrs) : n.attrs[i].name = name].value

\* str::trim().is_empty()
trim_is_empty(t) == \A i \in 1..Len(t) : t[i] \in {" ", "\n"}

RECURSIVE descendants(_)
RECURSIVE descendants_of(_)
\* Node::descendants: the node itself, then its subtree in document order
descendants(n) == <<n>> \o descendants_of(n.kids)

descendants_of(kids) ==
    IF kids = <<>> THEN <<>>
    ELSE descendants(Head(kids)) \o descendants_of(Tail(kids))

----------------------------------------------------------------------------
(* What XmlWriter writes, as the tree a parse of the text gives *)

RECURSIVE merge_text(_)
\* adjacent character data is one text node
merge_text(s) ==
    IF Len(s) < 2 THEN s
    ELSE IF is_text(s[1]) /\ is_text(s[2])
         THEN merge_text(<<Text(s[1].text \o s[2].text)>> \o Tail(Tail(s)))
         ELSE <<s[1]>> \o merge_text(Tail(s))

RECURSIVE indent_kids(_)
\* every child is written on a line of its own
indent_kids(kids) ==
    IF kids = <<>> THEN <<>>
    ELSE <<Text(<<"\n">>), Head(kids)>> \o indent_kids(Tail(kids))

RECURSIVE Reparse(_)
RECURSIVE reparse_kids(_)
\* XmlWriter::end_document followed by Document::parse: an element with
\* children gets a line break and indentation around each of them
Reparse(n) ==
    IF ~is_element(n) THEN n
    ELSE IF n.kids = <<>> THEN n
    ELSE [n EXCEPT !.kids = merge_text(indent_kids(reparse_kids(n.kids))
                                       \o <<Text(<<"\n">>)>>)]

reparse_kids(kids) ==
    IF kids = <<>> THEN <<>>
    ELSE <<Reparse(Head(kids))>> \o reparse_kids(Tail(kids))

----------------------------------------------------------------------------
(* The interpreter descriptor *)

Option(v) == Elem("option", <<Attr("value", v)>>, <<>>)

\* Path::parent of a path with a parent
Parent(path) == SubSeq(path, 1, FindLast(path, "/") - 1)

\* find_shadowenv_path: the Homebrew location exists
find_shadowenv_path == <<"/opt/homebrew/bin/shadowenv">>

write_shadowenv_interpreter(me) ==
    Elem("jdk", <<Attr("version", <<"2">>)>>, <<
        Elem("name", <<Attr("value", me.interpreter_name)>>, <<>>),
        Elem("type", <<Attr("value", <<"RUBY_SDK">>)>>, <<>>),
        Elem("version", <<Attr("value", me.ruby_version)>>, <<>>),
        Elem("homePath", <<Attr("value", me.ruby_interpreter_path)>>, <<>>),
        Elem("roots", <<>>, <<
            Elem("classPath", <<>>,
                 <<Elem("root", <<Attr("type", <<"composite">>)>>, <<>>)>>),
            Elem("sourcePath", <<>>,
                 <<Elem("root", <<Attr("type", <<"composite">>)>>, <<>>)>>) >>),
        Elem("additional",
             <<Attr("version", <<"1">>), Attr("GEMS_BIN_DIR_PATH", Parent(me.ruby_interpreter_path))>>,
             <<Elem("VERSION_MANAGER", <<Attr("ID", <<"system">>)>>,
                 <<Elem("custom-configurator", <<>>,
                     <<Elem("list", <<>>, <<
                         Option(find_shadowenv_path),
                         Option(<<"exec">>),
                         Option(<<"--dir">>),
                         Option(me.current_dir),
                         Option(<<"--">>) >>)>>)>>)>>) >>)

is_name_with_value(n) == n.tag = "name" /\ has_attribute(n, "value")

\* child.descendants().find(|n| ...).is_some()
has_name_node(child) ==
    LET d == descendants(child)
    IN  \E i \in 1..Len(d) : is_name_with_value(d[i])

\* the node child.descendants().find(|n| ...) returns
name_node(child) ==
    LET d == descendants(child)
    IN  d[CHOOSE i \in 1..Len(d) :
              is_name_with_value(d[i]) /\ \A j \in 1..(i-1) : ~is_name_with_value(d[j])]

\* a variant that differs in one point: every jdk child of the container is
\* dropped
skip_jdk_all(me, is_project_jdk_table, child) ==
    is_project_jdk_table /\ child.tag = "jdk"

\* a variant that differs in one point: the name is compared in every
\* element, not only in the container
skip_jdk_anywhere(me, is_project_jdk_table, child) ==
    /\ child.tag = "jdk"
    /\ has_name_node(child)
    /\ is_same_worktree_interpreter(me.current_dir,
                                    attribute(name_node(child), "value"))

\* whether the child loop skips this child element ("continue")
skip_jdk(me, is_project_jdk_table, child) ==
    /\ is_project_jdk_table
    /\ child.tag = "jdk"
    /\ has_name_node(child)
    /\ is_same_worktree_interpreter(me.current_dir,
                                    attribute(name_node(child), "value"))

\* the children of the element being written, the new entry added
place_interpreter(me, is_project_jdk_table, written) ==
    IF is_project_jdk_table
    THEN written \o <<write_shadowenv_interpreter(me)>>
    ELSE written

RECURSIVE write_element_with_interpreter(_, _)
RECURSIVE write_children_with_interpreter(_, _, _)
\* what one call writes: nothing for a node that is no element
write_element_with_interpreter(me, node) ==
    IF is_element(node)
    THEN LET is_project_jdk_table ==
                 /\ node.tag = "component"
                 /\ has_attribute(node, "name")
                 /\ attribute(node, "name") = <<"ProjectJdkTable">>
         IN  <<Elem(node.tag, node.attrs,
                    place_interpreter(me, is_project_jdk_table,
                        write_children_with_interpreter(me, is_project_jdk_table,
                                                        node.kids)))>>
    ELSE <<>>

write_children_with_interpreter(me, is_project_jdk_table, kids) ==
    IF kids = <<>> THEN <<>>
    ELSE LET child == Head(kids)
             rest == write_children_with_interpreter(me, is_project_jdk_table, Tail(kids))
         IN  IF is_element(child)
             THEN IF skip_jdk(me, is_project_jdk_table, child)
                  THEN rest
                  ELSE write_element_with_interpreter(me, child) \o rest
             ELSE IF is_text(child) /\ ~trim_is_empty(child.text)
                  THEN <<Text(child.text)>> \o rest
                  ELSE rest

\* a variant that differs in one point: the skeleton holds the container
\* and no entry
create_new_config_content_empty(me) ==
    Elem("application", <<>>,
         <<Elem("component", <<Attr("name", <<"ProjectJdkTable">>)>>, <<>>)>>)

create_new_config_content(me) ==
    Elem("application", <<>>,
         <<Elem("component", <<Attr("name", <<"ProjectJdkTable">>)>>,
                <<write_shadowenv_interpreter(me)>>)>>)

\* the document update_existing_config returns for a well-formed file
update_existing_config(me, root) == write_element_with_interpreter(me, root)[1]

----------------------------------------------------------------------------
(* The RUBY_ARGS patch *)

is_ruby_args_attr(tag_name, attr) ==
    tag_name = "RTEST_RUN_CONFIG_SETTINGS_ID"
        /\ attr.name = "NAME" /\ attr.value = <<"RUBY_ARGS">>

\* whether the attribute loop reaches an attribute NAME="RUBY_ARGS"
has_ruby_args(node) ==
    \E i \in 1..Len(node.attrs) : is_ruby_args_attr(node.tag, node.attrs[i])

\* the attributes of s that the inner loop copies
RECURSIVE other_attrs(_)
other_attrs(s) ==
    IF s = <<>> THEN <<>>
    ELSE IF Head(s).name # "NAME" /\ Head(s).name # "VALUE"
         THEN <<Head(s)>> \o other_attrs(Tail(s))
         ELSE other_attrs(Tail(s))

\* the attributes written for an element that holds NAME="RUBY_ARGS": those
\* before it as they are, NAME and the new VALUE, then every attribute that
\* is neither NAME nor VALUE
patched_attrs(node, ruby_args) ==
    LET at == CHOOSE i \in 1..Len(node.attrs) :
                  /\ is_ruby_args_attr(node.tag, node.attrs[i])
                  /\ \A j \in 1..(i-1) : ~is_ruby_args_attr(node.tag, node.attrs[j])
    IN  SubSeq(node.attrs, 1, at - 1)
            \o <<Attr("NAME", <<"RUBY_ARGS">>), Attr("VALUE", ruby_args)>>
            \o other_attrs(node.attrs)

RECURSIVE write_workspace_element(_, _, _)
RECURSIVE write_workspace_children(_, _, _)
\* what one call writes and the value of *updated after it
write_workspace_element(node, ruby_args, updated) ==
    IF is_element(node)
    THEN IF has_ruby_args(node)
         THEN [written |-> <<Elem(node.tag, patched_attrs(node, ruby_args), <<>>)>>,
               updated |-> TRUE]
         ELSE LET kids == write_workspace_children(node.kids, ruby_args, updated)
              IN  [written |-> <<Elem(node.tag, node.attrs, kids.written)>>,
                   updated |-> kids.updated]
    ELSE [written |-> <<>>, updated |-> updated]

write_workspace_children(kids, ruby_args, updated) ==
    IF kids = <<>> THEN [written |-> <<>>, updated |-> updated]
    ELSE LET child == Head(kids)
             first == IF is_element(child)
                      THEN write_workspace_element(child, ruby_args, updated)
                      ELSE IF is_text(child) /\ ~trim_is_empty(child.text)
                           THEN [written |-> <<Text(child.text)>>, updated |-> updated]
                           ELSE [written |-> <<>>, updated |-> updated]
             rest == write_workspace_children(Tail(kids), ruby_args, first.updated)
         IN  [written |-> first.written \o rest.written, updated |-> rest.updated]

generate_ruby_args(rubymine_app_path) ==
    <<"-I">> \o rubymine_app_path \o <<"/Contents/plugins/ruby/rb/testing/patch/common">>
    \o <<" -I">> \o rubymine_app_path \o <<"/Contents/plugins/ruby/rb/testing/patch/bdd">>
    \o <<" -I">> \o rubymine_app_path \o <<"/Contents/plugins/ruby/rb/testing/patch/rake">>
    \o <<" -I">> \o rubymine_app_path \o <<"/Contents/plugins/ruby/rb/testing/patch/testunit">>

\* doc.descendants().any(configuration[type="TestUnitRunConfigurationType"])
has_minitest_config(root) ==
    LET d == descendants(root)
    IN  \E i \in 1..Len(d) :
            /\ d[i].tag = "configuration"
            /\ has_attribute(d[i], "type")
            /\ attribute(d[i], "type") = <<"TestUnitRunConfigurationType">>

----------------------------------------------------------------------------
(* Files *)

NoNode == Elem("", <<>>, <<>>)

Absent == [st |-> "absent", root |-> NoNode]
Malformed == [st |-> "malformed", root |-> NoNode]
Doc(root) == [st |-> "doc", root |-> root]

\* Path::exists
exists(file) == file.st # "absent"

RECURSIVE well_formed(_)
\* whether the written text parses: no element carries an attribute twice
well_formed(n) ==
    /\ \A i, j \in 1..Len(n.attrs) : n.attrs[i].name = n.attrs[j].name => i = j
    /\ \A k \in 1..Len(n.kids) : well_formed(n.kids[k])

\* the content of a file after fs::write of the written document
written_file(tree) == IF well_formed(tree) THEN Doc(Reparse(tree)) ELSE Malformed

\* one thing a run does to the outside: a line printed, a file copied to its
\* backup path, a directory created, a file written (after: the document
\* as XmlWriter produced it)
Event(op, file, idx, text, before, after) ==
    [op |-> op, file |-> file, idx |-> idx, text |-> text,
     before |-> before, after |-> after]

Printed(text) == Event("print", "", 0, text, Absent, Absent)
PrintedDoc(text, tree) == Event("print", "", 0, text, Absent, Doc(tree))
Copied(file, idx, content) == Event("copy", file, idx, "", content, content)
Mkdir(file) == Event("mkdir", file, 0, "", Absent, Absent)
Wrote(file, idx, before, tree) == Event("write", file, idx, "", before, Doc(tree))

Backup(file, idx, content) == [file |-> file, idx |-> idx, content |-> content]

\* a variant that differs in one point: the backup path is not printed
backup_events_silent(file, idx, content) ==
    IF exists(content) THEN <<Copied(file, idx, content)>> ELSE <<>>

\* the backup step of the write paths: nothing when the target does not exist
backup_events(file, idx, content) ==
    IF exists(content)
    THEN <<Copied(file, idx, content), Printed("Backup created")>>
    ELSE <<>>

backup_files(file, idx, content) ==
    IF exists(content) THEN <<Backup(file, idx, content)>> ELSE <<>>

----------------------------------------------------------------------------
(* The data source pair *)

TextElem(tag, t) == Elem(tag, <<>>, <<Text(t)>>)

create_datasources_xml(mysql_config, uuid) ==
    Elem("project", <<Attr("version", <<"4">>)>>, <<
        Elem("component",
             <<Attr("name", <<"DataSourceManagerImpl">>), Attr("format", <<"xml">>),
               Attr("multifile-model", <<"true">>)>>, <<
            Elem("data-source",
                 <<Attr("source", <<"LOCAL">>),
                   Attr("name", <<"@">> \o mysql_config.host),
                   Attr("uuid", uuid)>>, <<
                TextElem("driver-ref", <<"mysql.8">>),
                TextElem("synchronize", <<"true">>),
                TextElem("jdbc-driver", <<"com.mysql.cj.jdbc.Driver">>),
                TextElem("jdbc-url", <<"jdbc:mysql://">> \o mysql_config.host
                                         \o <<":">> \o mysql_config.port),
                Elem("jdbc-additional-properties", <<>>, <<
                    Elem("property",
                         <<Attr("name", <<"com.intellij.clouds.kubernetes.db.enabled">>),
                           Attr("value", <<"false">>)>>, <<>>) >>),
                TextElem("working-dir", <<"$ProjectFileDir$">>) >>) >>) >>)

SchemaNode(qname) ==
    Elem("node", <<Attr("kind", <<"schema">>), Attr("qname", qname)>>, <<>>)

\* the token BACKQUOTE stands for the one-character string holding a backquote
create_datasources_local_xml(mysql_config, uuid) ==
    Elem("project", <<Attr("version", <<"4">>)>>, <<
        Elem("component",
             <<Attr("name", <<"dataSourceStorageLocal">>),
               Attr("created-in", <<"RM-233.15026.15">>)>>, <<
            Elem("data-source",
                 <<Attr("name", <<"@">> \o mysql_config.host), Attr("uuid", uuid)>>, <<
                Elem("database-info",
                     <<Attr("product", <<"MySQL">>), Attr("version", <<"8.0.11">>),
                       Attr("jdbc-version", <<"4.2">>),
                       Attr("driver-name", <<"MySQL Connector/J">>),
                       Attr("driver-version", <<"mysql-connector-java-8.0.25">>),
                       Attr("dbms", <<"MYSQL">>), Attr("exact-version", <<"8.0.11">>),
                       Attr("exact-driver-version", <<"8.0">>)>>, <<
                    TextElem("extra-name-characters", <<"#@">>),
                    TextElem("identifier-quote-string", <<"BACKQUOTE">>) >>),
                Elem("case-sensitivity",
                     <<Attr("plain-identifiers", <<"lower">>),
                       Attr("quoted-identifiers", <<"lower">>)>>, <<>>),
                TextElem("secret-storage", <<"master_key">>),
                TextElem("user-name", mysql_config.user),
                Elem("schema-mapping", <<>>, <<
                    Elem("introspection-scope", <<>>, <<
                        SchemaNode(<<"@">>),
                        SchemaNode(<<"storefront_renderer_test_master">>),
                        SchemaNode(<<"storefront_renderer_test_shard">>),
                        SchemaNode(<<"storefront_renderer_dev_shard">>) >>) >>) >>) >>) >>)

is_data_source_with_uuid(n) == n.tag = "data-source" /\ has_attribute(n, "uuid")

\* whether the loop over doc.descendants() returns a uuid
has_datasource_uuid(root) ==
    LET d == descendants(root)
    IN  \E i \in 1..Len(d) : is_data_source_with_uuid(d[i])

\* the uuid it returns: that of the first data-source carrying one
existing_datasource_uuid(root) ==
    LET d == descendants(root)
        at == CHOOSE i \in 1..Len(d) :
                  /\ is_data_source_with_uuid(d[i])
                  /\ \A j \in 1..(i-1) : ~is_data_source_with_uuid(d[j])
    IN  attribute(d[at], "uuid")

----------------------------------------------------------------------------
(* What a run finds around it *)

\* Local::now().format("%Y-%m-%d") of a run
Dates == {<<"2024-01-01">>, <<"2024-06-01">>}

\* the date in the names of the entries of a prior document
OldDate == <<"2023-12-31">>

\* ruby -e "puts RUBY_VERSION"
RubyVersion == <<"3.2.0">>

\* which ruby, and the interpreter its exec line names
RubyWrapperPath == <<"/", "shims", "/", "ruby">>
RubyInterpreterPath == <<"/", "opt", "/", "rubies", "/", "bin", "/", "ruby">>

\* find_rubymine_app_path
RubyMineApp == <<"/Applications/RubyMine.app">>

\* read_mysql_config, the variables set
MySql == [host |-> <<"127.0.0.1">>, port |-> <<"3306">>, user |-> <<"root">>,
          password |-> <<>>]

\* Uuid::new_v4
Uuids == {<<"uuid-a">>, <<"uuid-b">>}

\* detect_ruby_environment: found, which ruby prints nothing, RUBY_VERSION empty
Detections == {"ok", "no_ruby", "no_version"}

DirApp == <<"/", "home", "/", "app">>
DirWtSrc == <<"/", "home", "/", "trees", "/", "wt", "/", "src">>
DirWtRoot == <<"/", "home", "/", "trees", "/", "wt">>
DirCopy == <<"/", "home", "/", "app ", "(", "copy", ")">>
DirWt == <<"/", "home", "/", "wt">>
DirRoot == <<"/">>

Dirs == {DirApp, DirWtSrc, DirWtRoot, DirCopy, DirWt, DirRoot}

NoSelf ==
    [ruby_wrapper_path |-> <<>>, ruby_interpreter_path |-> <<>>, ruby_version |-> <<>>,
     interpreter_name |-> <<>>, current_dir |-> <<>>, dry_run |-> FALSE]

NoPrev == [ran |-> FALSE, me |-> NoSelf, result |-> "idle", writes |-> <<>>]

is_write(e) == e.op = "write"
is_print(e) == e.op = "print"

----------------------------------------------------------------------------
(* main *)

\* a variant that differs in one point: an empty answer of which ruby or of
\* ruby -e is not an error
detect_ruby_environment_unchecked(found) ==
    [ok |-> TRUE,
     ruby_wrapper_path |-> IF found = "no_ruby" THEN <<>> ELSE RubyWrapperPath,
     ruby_interpreter_path |-> IF found = "no_ruby" THEN <<>> ELSE RubyInterpreterPath,
     ruby_version |-> IF found = "no_version" THEN <<>> ELSE RubyVersion,
     error |-> ""]

\* detect_ruby_environment: the three facts, or the error it bails with
detect_ruby_environment(found) ==
    IF found = "no_ruby"
    THEN [ok |-> FALSE, ruby_wrapper_path |-> <<>>, ruby_interpreter_path |-> <<>>,
          ruby_version |-> <<>>, error |-> "Error: Could not find ruby in PATH"]
    ELSE IF found = "no_version"
    THEN [ok |-> FALSE, ruby_wrapper_path |-> <<>>, ruby_interpreter_path |-> <<>>,
          ruby_version |-> <<>>, error |-> "Error: Could not determine Ruby version"]
    ELSE [ok |-> TRUE, ruby_wrapper_path |-> RubyWrapperPath,
          ruby_interpreter_path |-> RubyInterpreterPath,
          ruby_version |-> RubyVersion, error |-> ""]

\* Args::parse and RubyMineInterpreter::new
Start ==
    /\ pc \in {"idle", "done", "failed"}
    /\ runs < limit
    /\ \E dry_run \in BOOLEAN, date \in Dates, found \in Detections, dir \in projects :
        LET got == detect_ruby_environment(found)
        IN  /\ cwd' = dir
            /\ self' = IF got.ok
                       THEN [ruby_wrapper_path |-> got.ruby_wrapper_path,
                             ruby_interpreter_path |-> got.ruby_interpreter_path,
                             ruby_version |-> got.ruby_version,
                             interpreter_name |->
                                 generate_interpreter_name(dir, got.ruby_version, date),
                             current_dir |-> dir,
                             dry_run |-> dry_run]
                       ELSE NoSelf
            /\ pc' = IF got.ok THEN "interpreter" ELSE "failed"
            /\ events' = IF got.ok THEN <<>> ELSE <<Printed(got.error)>>
    /\ runs' = runs + 1
    /\ prev' = IF pc = "idle" THEN NoPrev
               ELSE [ran |-> TRUE, me |-> self, result |-> pc,
                     writes |-> SelectSeq(events, is_write)]
    /\ UNCHANGED <<optionsDir, jdkTable, workspace, env, ideaDir, dsXml, dsLocal,
                   backups, limit, projects>>

\* create_interpreter_config: the document, or the parse error
create_interpreter_config(me, file) ==
    IF exists(file)
    THEN IF file.st = "malformed"
         THEN [ok |-> FALSE, content |-> NoNode]
         ELSE [ok |-> TRUE, content |-> update_existing_config(me, file.root)]
    ELSE [ok |-> TRUE, content |-> create_new_config_content(me)]

create_interpreter ==
    /\ pc = "interpreter"
    /\ LET config == create_interpreter_config(self, jdkTable)
           intro == IF self.dry_run
                    THEN <<Printed("# Configuration file location"),
                           Printed("# Interpreter name"), Printed("# Ruby wrapper"),
                           Printed("# Ruby interpreter"), Printed("# Ruby version"),
                           Printed("# Current directory")>>
                    ELSE (IF optionsDir THEN <<>> ELSE <<Mkdir("options")>>)
                         \o <<Printed("Creating RubyMine interpreter"),
                              Printed("Ruby wrapper"), Printed("Ruby interpreter"),
                              Printed("Ruby version"), Printed("Current directory"),
                              Printed("Config file")>>
       IN  IF ~env.config_dir
           THEN /\ pc' = "failed"
                /\ events' = events
                       \o <<Printed("Error: No RubyMine configuration directory found")>>
                /\ UNCHANGED <<optionsDir, jdkTable, backups>>
           ELSE IF ~config.ok
           THEN /\ pc' = "failed"
                /\ events' = events \o intro \o <<Printed("Error: parse")>>
                /\ optionsDir' = (optionsDir \/ ~self.dry_run)
                /\ UNCHANGED <<jdkTable, backups>>
           ELSE IF self.dry_run
           THEN /\ pc' = "minitest"
                /\ events' = events \o intro \o <<PrintedDoc("config", config.content)>>
                /\ UNCHANGED <<optionsDir, jdkTable, backups>>
           ELSE IF exists(jdkTable) /\ ~env.copy
           THEN /\ pc' = "failed"
                /\ events' = events \o intro \o <<Printed("Error: copy")>>
                /\ optionsDir' = TRUE
                /\ UNCHANGED <<jdkTable, backups>>
           ELSE /\ pc' = "minitest"
                /\ events' = events \o intro
                       \o backup_events("jdk.table.xml", 0, jdkTable)
                       \o <<Wrote("jdk.table.xml", 0, jdkTable, config.content),
                            Printed("Interpreter created successfully!"),
                            Printed("Restart RubyMine to see the new interpreter")>>
                /\ optionsDir' = TRUE
                /\ jdkTable' = written_file(config.content)
                /\ backups' = backups \o backup_files("jdk.table.xml", 0, jdkTable)
    /\ UNCHANGED <<cwd, self, workspace, env, ideaDir, dsXml, dsLocal, runs, limit, projects, prev>>


\* a variant that differs in one point: the patched document is written to
\* the workspace file, not returned
preview_minitest_config_changes_written(root, ruby_args) ==
    IF ~has_minitest_config(root)
    THEN Printed("# No Minitest configurations found in this workspace file")
    ELSE Wrote("workspace.xml", 1, Doc(root),
               write_workspace_element(root, ruby_args, FALSE).written[1])

\* preview_minitest_config_changes, for a well-formed file: the line printed
preview_minitest_config_changes(root, ruby_args) ==
    IF ~has_minitest_config(root)
    THEN Printed("# No Minitest configurations found in this workspace file")
    ELSE PrintedDoc("preview",
                    write_workspace_element(root, ruby_args, FALSE).written[1])

RECURSIVE minitest_loop(_, _, _, _, _)
\* the loop over workspace_files from file i on: the files' contents after
\* it, what it did, the backups it made, and whether it ran to its end
\* (copy_ok: whether fs::copy succeeds)
minitest_loop(files, i, dry_run, ruby_args, copy_ok) ==
    IF i > Len(files)
    THEN [ok |-> TRUE, files |-> files, events |-> <<>>, backups |-> <<>>]
    ELSE IF dry_run
    THEN LET rest == minitest_loop(files, i + 1, dry_run, ruby_args, copy_ok)
             shown == IF files[i].st = "malformed"
                      THEN Printed("# Unable to preview changes for this file")
                      ELSE preview_minitest_config_changes(files[i].root, ruby_args)
         IN  [rest EXCEPT !.events =
                  <<Printed("# Workspace file"), shown, Printed("")>> \o rest.events]
    ELSE IF files[i].st = "malformed"
    THEN [ok |-> FALSE, files |-> files,
          events |-> <<Printed("Updating"), Printed("Error: parse")>>,
          backups |-> <<>>]
    ELSE IF write_workspace_element(files[i].root, ruby_args, FALSE).updated /\ ~copy_ok
    THEN [ok |-> FALSE, files |-> files,
          events |-> <<Printed("Updating"), Printed("Error: copy")>>,
          backups |-> <<>>]
    ELSE LET res == write_workspace_element(files[i].root, ruby_args, FALSE)
             after == IF res.updated
                      THEN [files EXCEPT ![i] = written_file(res.written[1])]
                      ELSE files
             did == IF res.updated
                    THEN backup_events("workspace.xml", i, files[i])
                         \o <<Wrote("workspace.xml", i, files[i], res.written[1])>>
                    ELSE <<>>
             kept == IF res.updated
                     THEN backup_files("workspace.xml", i, files[i])
                     ELSE <<>>
             rest == minitest_loop(after, i + 1, dry_run, ruby_args, copy_ok)
         IN  [ok |-> rest.ok, files |-> rest.files,
              events |-> <<Printed("Updating")>> \o did \o rest.events,
              backups |-> kept \o rest.backups]

create_minitest_config ==
    /\ pc = "minitest"
    /\ LET ruby_args == generate_ruby_args(RubyMineApp)
           loop == minitest_loop(workspace, 1, self.dry_run, ruby_args, env.copy)
           intro == IF self.dry_run
                    THEN <<Printed("# Minitest Configuration Updates:"),
                           Printed("# RubyMine app path"), Printed("# Updated RUBY_ARGS")>>
                    ELSE <<Printed("Updating Minitest configuration..."),
                           Printed("RubyMine app path")>>
           outro == IF self.dry_run THEN <<>>
                    ELSE <<Printed("Minitest configuration updated successfully!"),
                           Printed("Restart RubyMine to see the updated test template configuration")>>
       IN  IF ~env.app
           THEN /\ pc' = "failed"
                /\ events' = events \o <<Printed("Error: RubyMine.app not found")>>
                /\ UNCHANGED <<workspace, backups>>
           ELSE IF ~env.config_dir
           THEN /\ pc' = "failed"
                /\ events' = events
                       \o <<Printed("Error: No RubyMine configuration directory found")>>
                /\ UNCHANGED <<workspace, backups>>
           ELSE IF workspace = <<>>
           THEN /\ pc' = "datasources"
                /\ events' = events \o
                       <<IF self.dry_run
                         THEN Printed("# No workspace files found for the current project")
                         ELSE Printed("No workspace files found for the current project")>>
                /\ UNCHANGED <<workspace, backups>>
           ELSE /\ pc' = IF loop.ok THEN "datasources" ELSE "failed"
                /\ events' = events \o intro \o loop.events
                                 \o (IF loop.ok THEN outro ELSE <<>>)
                /\ workspace' = loop.files
                /\ backups' = backups \o loop.backups
    /\ UNCHANGED <<cwd, self, optionsDir, jdkTable, env, ideaDir, dsXml, dsLocal,
                   runs, limit, projects, prev>>

\* a variant that differs in one point: the uuid of the file is not looked
\* for
get_or_generate_datasource_uuid_fresh(file, fresh) ==
    IF exists(file) /\ file.st = "malformed"
    THEN [ok |-> FALSE, uuid |-> <<>>]
    ELSE [ok |-> TRUE, uuid |-> fresh]

\* get_or_generate_datasource_uuid with the uuid Uuid::new_v4 would give
get_or_generate_datasource_uuid(file, fresh) ==
    IF exists(file)
    THEN IF file.st = "malformed"
         THEN [ok |-> FALSE, uuid |-> <<>>]
         ELSE IF has_datasource_uuid(file.root)
              THEN [ok |-> TRUE, uuid |-> existing_datasource_uuid(file.root)]
              ELSE [ok |-> TRUE, uuid |-> fresh]
    ELSE [ok |-> TRUE, uuid |-> fresh]

configure_datasources ==
    /\ pc = "datasources"
    /\ \E fresh \in Uuids :
        LET got == get_or_generate_datasource_uuid(dsXml, fresh)
            datasources_xml == create_datasources_xml(MySql, got.uuid)
            datasources_local_xml == create_datasources_local_xml(MySql, got.uuid)
            intro == IF self.dry_run
                     THEN <<Printed("# MySQL Configuration:"), Printed("# Host"),
                            Printed("# Port"), Printed("# User"), Printed("# Password")>>
                     ELSE <<Printed("Configuring MySQL datasources..."), Printed("Host"),
                            Printed("Port"), Printed("User")>>
        IN  IF ~env.mysql
            THEN /\ pc' = "done"
                 /\ events' = events \o
                        <<IF self.dry_run
                          THEN Printed("# MySQL environment variables not found, skipping datasource configuration")
                          ELSE Printed("MySQL environment variables not found, skipping datasource configuration")>>
                 /\ UNCHANGED <<ideaDir, dsXml, dsLocal, backups>>
            ELSE IF ~got.ok
            THEN /\ pc' = "failed"
                 /\ events' = events \o intro \o <<Printed("Error: parse")>>
                 /\ UNCHANGED <<ideaDir, dsXml, dsLocal, backups>>
            ELSE IF self.dry_run
            THEN /\ pc' = "done"
                 /\ events' = events \o intro
                        \o <<PrintedDoc("# dataSources.xml:", datasources_xml),
                             PrintedDoc("# dataSources.local.xml:", datasources_local_xml)>>
                 /\ UNCHANGED <<ideaDir, dsXml, dsLocal, backups>>
            ELSE IF exists(dsXml) /\ ~env.copy
            THEN /\ pc' = "failed"
                 /\ events' = events \o intro
                        \o (IF ideaDir THEN <<>> ELSE <<Mkdir(".idea")>>)
                        \o <<Printed("Error: copy")>>
                 /\ ideaDir' = TRUE
                 /\ UNCHANGED <<dsXml, dsLocal, backups>>
            ELSE IF exists(dsLocal) /\ ~env.copy
            THEN /\ pc' = "failed"
                 /\ events' = events \o intro
                        \o (IF ideaDir THEN <<>> ELSE <<Mkdir(".idea")>>)
                        \o <<Wrote("dataSources.xml", 0, dsXml, datasources_xml),
                             Printed("Created"), Printed("Error: copy")>>
                 /\ ideaDir' = TRUE
                 /\ dsXml' = written_file(datasources_xml)
                 /\ UNCHANGED <<dsLocal, backups>>
            ELSE /\ pc' = "done"
                 /\ events' = events \o intro
                        \o (IF ideaDir THEN <<>> ELSE <<Mkdir(".idea")>>)
                        \o backup_events("dataSources.xml", 0, dsXml)
                        \o <<Wrote("dataSources.xml", 0, dsXml, datasources_xml),
                             Printed("Created")>>
                        \o backup_events("dataSources.local.xml", 0, dsLocal)
                        \o <<Wrote("dataSources.local.xml", 0, dsLocal, datasources_local_xml),
                             Printed("Created"),
                             Printed("Datasource configuration completed successfully!")>>
                 /\ ideaDir' = TRUE
                 /\ dsXml' = written_file(datasources_xml)
                 /\ dsLocal' = written_file(datasources_local_xml)
                 /\ backups' = backups \o backup_files("dataSources.xml", 0, dsXml)
                                       \o backup_files("dataSources.local.xml", 0, dsLocal)
    /\ UNCHANGED <<cwd, self, optionsDir, jdkTable, workspace, env, runs, limit, projects, prev>>

Next == Start \/ create_interpreter \/ create_minitest_config \/ configure_datasources

----------------------------------------------------------------------------
(* Prior documents *)

OldVersion == <<"3.1.4">>

\* a name as an earlier run wrote it for the name part given
OldName(part) ==
    <<"Ruby ">> \o OldVersion \o <<" ", "(">> \o part \o <<")", " + shadowenv ">> \o OldDate

NameElem(value) == Elem("name", <<Attr("value", value)>>, <<>>)
TypeElem == Elem("type", <<Attr("value", <<"RUBY_SDK">>)>>, <<>>)

JdkNamed(value) ==
    Elem("jdk", <<Attr("version", <<"2">>)>>, <<NameElem(value), TypeElem>>)

KWtSrc == JdkNamed(OldName(<<"wt", "/", "src">>))
KWtApp == JdkNamed(OldName(<<"wt", "/", "app">>))
KW2Src == JdkNamed(OldName(<<"w2", "/", "src">>))
KApp == JdkNamed(OldName(<<"app">>))
\* a name element that carries no value attribute
KNoName ==
    Elem("jdk", <<Attr("version", <<"2">>)>>,
         <<Elem("name", <<Attr("label", OldName(<<"wt", "/", "src">>))>>, <<>>), TypeElem>>)
\* a name with no parenthesis
KNoParen == JdkNamed(<<"rbenv: ", "3.1.4">>)
\* a name whose parenthesis is not closed
KOpen == JdkNamed(<<"Ruby ", "3.1.4", " ", "(", "wt", "/", "src">>)
\* an element that is no jdk, holding a matching name and a jdk
KGroup == Elem("group", <<>>, <<NameElem(OldName(<<"wt", "/", "src">>)), KWtSrc>>)
\* a jdk whose name lies deeper, with a comment and text
KDeep ==
    Elem("jdk", <<Attr("version", <<"2">>)>>,
         <<Comment(<<"kept by hand">>), Text(<<"legacy">>),
           Elem("additional", <<>>, <<NameElem(OldName(<<"wt", "/", "src">>))>>)>>)

KidPool == {KWtSrc, KWtApp, KW2Src, KApp, KNoName, KNoParen, KOpen, KGroup, KDeep}

KidSeqs(n) == UNION {[1..k -> KidPool] : k \in 0..n}

Container(kids) == Elem("component", <<Attr("name", <<"ProjectJdkTable">>)>>, kids)

Single(kids) == Elem("application", <<>>, <<Container(kids)>>)

\* no component named ProjectJdkTable
NoContainerDoc ==
    Elem("application", <<>>,
         <<Elem("component", <<Attr("name", <<"Other">>)>>, <<KWtSrc>>),
           Elem("component", <<>>, <<KApp>>)>>)

\* two of them, as a parse of indented text gives them
TwoContainers ==
    Elem("application", <<>>,
         <<Text(<<"\n">>), Container(<<KWtSrc, KW2Src>>), Comment(<<"second">>),
           Elem("component",
                <<Attr("version", <<"1">>), Attr("name", <<"ProjectJdkTable">>)>>,
                <<KWtApp, KApp>>),
           Text(<<"\n">>)>>)

\* one inside an entry of another
NestedContainers ==
    Single(<<Elem("jdk", <<Attr("version", <<"2">>)>>,
                  <<NameElem(OldName(<<"w2", "/", "src">>)), Container(<<KWtSrc>>)>>)>>)

\* one container, with comments and text beside and between the entries
CommentedDoc ==
    Elem("application", <<>>,
         <<Comment(<<"managed by hand">>), Text(<<"\n">>),
           Container(<<Text(<<"\n">>), KW2Src, Comment(<<"work laptop">>),
                       KWtSrc, Text(<<"note">>), KApp, Text(<<"\n">>)>>)>>)

JdkFiles ==
    {Absent, Malformed}
        \cup {Doc(Single(kids)) : kids \in KidSeqs(MaxKids)}
        \cup {Doc(NoContainerDoc), Doc(TwoContainers), Doc(NestedContainers),
              Doc(CommentedDoc)}

Setting(attrs) == Elem("RTEST_RUN_CONFIG_SETTINGS_ID", attrs, <<>>)

SNameFirst == Setting(<<Attr("NAME", <<"RUBY_ARGS">>), Attr("VALUE", <<"-Iold">>)>>)
SValueFirst == Setting(<<Attr("VALUE", <<"-Iold">>), Attr("NAME", <<"RUBY_ARGS">>)>>)
SExtraFirst ==
    Setting(<<Attr("extra", <<"1">>), Attr("NAME", <<"RUBY_ARGS">>),
              Attr("VALUE", <<"-Iold">>)>>)
SExtraLast ==
    Setting(<<Attr("NAME", <<"RUBY_ARGS">>), Attr("VALUE", <<"-Iold">>),
              Attr("extra", <<"1">>)>>)
SNoValue == Setting(<<Attr("NAME", <<"RUBY_ARGS">>)>>)
SOther == Setting(<<Attr("NAME", <<"TEST_FILE_MASK">>), Attr("VALUE", <<"**/*_test.rb">>)>>)
\* another tag carrying the same attribute pair
SOtherTag ==
    Elem("SETTINGS", <<Attr("NAME", <<"RUBY_ARGS">>), Attr("VALUE", <<"-Iold">>)>>, <<>>)
\* a matching element with content
SContent ==
    Elem("RTEST_RUN_CONFIG_SETTINGS_ID",
         <<Attr("NAME", <<"RUBY_ARGS">>), Attr("VALUE", <<"-Iold">>)>>,
         <<Elem("option", <<Attr("value", <<"x">>)>>, <<>>), Text(<<"note">>)>>)

SettingPool ==
    {SNameFirst, SValueFirst, SExtraFirst, SExtraLast, SNoValue, SOther, SOtherTag, SContent}

SettingSeqs(n) == UNION {[1..k -> SettingPool] : k \in 0..n}

WorkspaceDoc(type, settings) ==
    Elem("project", <<Attr("version", <<"4">>)>>,
         <<Elem("component", <<Attr("name", <<"RunManager">>)>>,
                <<Elem("configuration",
                       <<Attr("default", <<"true">>), Attr("type", type)>>,
                       settings)>>)>>)

WorkspaceFiles ==
    {Malformed}
        \cup {Doc(WorkspaceDoc(<<"TestUnitRunConfigurationType">>, settings)) :
                  settings \in SettingSeqs(MaxSettings)}
        \cup {Doc(WorkspaceDoc(<<"RSpecRunConfigurationType">>, <<SNameFirst>>))}

\* the files find_workspace_files returns: none, one, or the project's file
\* and one of the global directory
WorkspaceLists ==
    {<<>>}
        \cup {<<f>> : f \in WorkspaceFiles}
        \cup {<<f, g>> : f \in {Doc(WorkspaceDoc(<<"TestUnitRunConfigurationType">>, <<SOther>>)),
                                Doc(WorkspaceDoc(<<"TestUnitRunConfigurationType">>, <<SNameFirst>>))},
                         g \in {Malformed,
                                Doc(WorkspaceDoc(<<"TestUnitRunConfigurationType">>, <<SOther>>)),
                                Doc(WorkspaceDoc(<<"TestUnitRunConfigurationType">>, <<SExtraLast>>))}}

DataSourceFiles ==
    {Absent, Malformed,
     Doc(create_datasources_xml(MySql, <<"uuid-old">>)),
     Doc(Elem("project", <<>>, <<Elem("data-source", <<Attr("name", <<"x">>)>>, <<>>)>>))}

\* a data source without uuid, then two with different ones
ManyDataSources ==
    Elem("project", <<>>,
         <<Elem("data-source", <<Attr("name", <<"x">>)>>, <<>>),
           Elem("component", <<>>,
                <<Elem("data-source", <<Attr("uuid", <<"uuid-1">>)>>, <<>>)>>),
           Elem("data-source", <<Attr("uuid", <<"uuid-2">>)>>, <<>>)>>)

\* copy: whether fs::copy to a backup path succeeds
Envs == [config_dir : BOOLEAN, app : BOOLEAN, mysql : BOOLEAN, copy : BOOLEAN]

----------------------------------------------------------------------------
(* Specifications *)

Installed == [config_dir |-> TRUE, app |-> TRUE, mysql |-> FALSE, copy |-> TRUE]

InitRun ==
    /\ self = NoSelf
    /\ pc = "idle"
    /\ backups = <<>>
    /\ events = <<>>
    /\ runs = 0
    /\ prev = NoPrev

\* one project directory, any prior jdk.table.xml, the program run once
InitJdk ==
    /\ InitRun
    /\ cwd \in {DirApp, DirWtSrc, DirCopy, DirWt}
    /\ jdkTable \in JdkFiles
    /\ optionsDir = exists(jdkTable)
    /\ workspace = <<>>
    /\ env = Installed
    /\ ideaDir = FALSE
    /\ dsXml = Absent
    /\ dsLocal = Absent
    /\ limit = 1
    /\ projects = {cwd}

\* the program run again and again in one directory
InitRerun ==
    /\ InitRun
    /\ cwd \in Dirs
    /\ jdkTable \in {Doc(Single(kids)) : kids \in KidSeqs(MaxKids - 1)}
                        \cup {Doc(TwoContainers)}
    /\ optionsDir = TRUE
    /\ workspace = <<>>
    /\ env = Installed
    /\ ideaDir = FALSE
    /\ dsXml = Absent
    /\ dsLocal = Absent
    /\ limit = MaxRuns
    /\ projects = {cwd}

\* any prior workspace files, the program run once
InitWorkspace ==
    /\ InitRun
    /\ cwd = DirApp
    /\ jdkTable = Absent
    /\ optionsDir = TRUE
    /\ workspace \in WorkspaceLists
    /\ env \in {e \in Envs : e.config_dir /\ ~e.mysql /\ e.copy}
    /\ ideaDir = (workspace # <<>>)
    /\ dsXml = Absent
    /\ dsLocal = Absent
    /\ limit = 1
    /\ projects = {cwd}

\* a fresh or a used installation, whatever is found around it
Init ==
    /\ InitRun
    /\ cwd \in {DirApp, DirWtSrc}
    /\ jdkTable \in {Absent, Malformed, Doc(Single(<<KWtSrc>>))}
    /\ optionsDir \in {exists(jdkTable), TRUE}
    /\ workspace \in {<<>>, <<Malformed>>,
                      <<Doc(WorkspaceDoc(<<"TestUnitRunConfigurationType">>, <<SNameFirst>>))>>}
    /\ env \in {e \in Envs : e.copy}
    /\ dsXml \in DataSourceFiles
    /\ dsLocal \in {Absent, dsXml}
    /\ ideaDir \in {exists(dsXml) \/ workspace # <<>>, TRUE}
    /\ limit = MaxRuns
    /\ projects = {cwd}

\* one run in one project, whatever it finds: every file absent, malformed
\* or well-formed, every part of the environment present or missing
InitOnce ==
    /\ InitRun
    /\ cwd = DirApp
    /\ jdkTable \in {Absent, Malformed, Doc(Single(<<KWtSrc>>))}
    /\ optionsDir \in {exists(jdkTable), TRUE}
    /\ workspace \in {<<>>, <<Malformed>>,
                      <<Doc(WorkspaceDoc(<<"TestUnitRunConfigurationType">>, <<SNameFirst>>))>>,
                      <<Doc(WorkspaceDoc(<<"TestUnitRunConfigurationType">>, <<SNameFirst>>)),
                        Malformed>>}
    /\ env \in Envs
    /\ dsXml \in DataSourceFiles
    /\ dsLocal \in {Absent, dsXml}
    /\ ideaDir \in {exists(dsXml) \/ exists(dsLocal), TRUE}
    /\ limit = 1
    /\ projects = {cwd}

\* the data source pair of one project over several runs
InitData ==
    /\ InitRun
    /\ cwd = DirApp
    /\ jdkTable = Absent
    /\ optionsDir = TRUE
    /\ workspace = <<>>
    /\ env = [Installed EXCEPT !.mysql = TRUE]
    /\ dsXml \in DataSourceFiles \cup {Doc(ManyDataSources)}
    /\ dsLocal \in {Absent, dsXml}
    /\ ideaDir = (exists(dsXml) \/ exists(dsLocal))
    /\ limit = MaxRuns
    /\ projects = {cwd}

\* a fresh installation, the program run in one project after another;
\* the projects have no workspace file and no data source
InitRoam ==
    /\ InitRun
    /\ cwd = DirRoot
    /\ jdkTable = Absent
    /\ optionsDir = FALSE
    /\ workspace = <<>>
    /\ env = Installed
    /\ ideaDir = FALSE
    /\ dsXml = Absent
    /\ dsLocal = Absent
    /\ limit = MaxRuns
    /\ projects = Dirs

\* one project run again and again, each run free to fail at any stage: the
\* Ruby facts missing, any part of the environment missing, jdk.table.xml
\* or dataSources.xml malformed, a malformed workspace file after a
\* well-formed one
InitStages ==
    /\ InitRun
    /\ cwd = DirApp
    /\ jdkTable \in {Absent, Malformed}
    /\ optionsDir = exists(jdkTable)
    /\ workspace \in {<<>>,
                      <<Doc(WorkspaceDoc(<<"TestUnitRunConfigurationType">>, <<SNameFirst>>)),
                        Malformed>>}
    /\ env \in Envs
    /\ dsXml \in {Absent, Malformed}
    /\ dsLocal = dsXml
    /\ ideaDir = exists(dsXml)
    /\ limit = MaxRuns
    /\ projects = {cwd}

Spec == Init /\ [][Next]_vars
SpecJdk == InitJdk /\ [][Next]_vars
SpecRerun == InitRerun /\ [][Next]_vars
SpecWorkspace == InitWorkspace /\ [][Next]_vars
SpecOnce == InitOnce /\ [][Next]_vars
SpecData == InitData /\ [][Next]_vars
SpecRoam == InitRoam /\ [][Next]_vars
SpecStages == InitStages /\ [][Next]_vars

----------------------------------------------------------------------------
(* Vocabulary of the properties *)

is_container(n) ==
    is_element(n) /\ n.tag = "component"
        /\ \E i \in 1..Len(n.attrs) :
               n.attrs[i].name = "name" /\ n.attrs[i].value = <<"ProjectJdkTable">>

is_jdk(n) == is_element(n) /\ n.tag = "jdk"

\* the ProjectJdkTable components of a tree, in document order
Containers(tree) == SelectSeq(descendants(tree), is_container)

ElementKids(n) == SelectSeq(n.kids, is_element)
JdkKids(n) == SelectSeq(n.kids, is_jdk)

\* the number of jdk elements anywhere in a tree
NumJdk(tree) == Len(SelectSeq(descendants(tree), is_jdk))

is_content(n) == is_element(n) \/ (is_text(n) /\ \E i \in 1..Len(n.text) : n.text[i] \notin {" ", "\n"})

RECURSIVE Strip(_)
RECURSIVE StripAll(_)
\* a tree without its comments and its blank text: what a rewrite may not change
Strip(n) == IF is_element(n) THEN [n EXCEPT !.kids = StripAll(SelectSeq(n.kids, is_content))] ELSE n

StripAll(s) == IF s = <<>> THEN <<>> ELSE <<Strip(Head(s))>> \o StripAll(Tail(s))

\* the display name of an entry: the value of its first name element that has one
EntryName(entry) ==
    IF has_name_node(entry) THEN attribute(name_node(entry), "value") ELSE <<>>

\* the text between the first "(" of a name and the first ")" after it; no
\* such text: the name does not follow the convention
FollowsConvention(name) ==
    \E i \in 1..Len(name) : name[i] = "(" /\ \E j \in (i+1)..Len(name) : name[j] = ")"

Parenthesised(name) ==
    LET i == CHOOSE i \in 1..Len(name) : name[i] = "(" /\ \A k \in 1..(i-1) : name[k] # "("
        j == CHOOSE j \in (i+1)..Len(name) :
                 name[j] = ")" /\ \A k \in (i+1)..(j-1) : name[k] # ")"
    IN  SubSeq(name, i + 1, j - 1)

\* the scope of a "{scope}/{leaf}" key, the whole key when it has no leaf
ScopeOf(key) ==
    IF \E i \in 1..Len(key) : key[i] = "/"
    THEN SubSeq(key, 1, (CHOOSE i \in 1..Len(key) :
                             key[i] = "/" /\ \A k \in 1..(i-1) : key[k] # "/") - 1)
    ELSE key

HasLeaf(key) == \E i \in 1..Len(key) : key[i] = "/"

\* the identity key of the entry a run in directory dir inserts
KeyOfDir(dir) == name_part(dir)

\* identity as the claims state it: the keys are equal
SameKey(dir, entry) ==
    /\ FollowsConvention(EntryName(entry))
    /\ Parenthesised(EntryName(entry)) = KeyOfDir(dir)

\* identity as the code decides it: the scope of the entry's key is the
\* worktree of dir; a key without a leaf must also be the directory's name
SameScope(dir, entry) ==
    /\ FollowsConvention(EntryName(entry))
    /\ LET key == Parenthesised(EntryName(entry))
       IN  /\ ScopeOf(key) = extract_worktree_name(dir)
           /\ HasLeaf(key) \/ FileName(dir) = key

\* an entry a run in dir wrote: its name is the generated one, whatever the date
WrittenFor(dir, entry) ==
    \E version \in {RubyVersion, OldVersion}, date \in Dates \cup {OldDate} :
        EntryName(entry) = generate_interpreter_name(dir, version, date)

is_jdk_write(e) == e.op = "write" /\ e.file = "jdk.table.xml"
is_config_print(e) == e.op = "print" /\ e.text = "config"
is_workspace_write(e) == e.op = "write" /\ e.file = "workspace.xml"
is_workspace_event(e) == e.op \in {"write", "copy"} /\ e.file = "workspace.xml"

\* the merges of the run in progress: the prior file and the document
\* produced from it, written or (dry run) printed
Merges ==
    {[before |-> e.before, after |-> e.after.root] :
         e \in {events[i] : i \in {k \in 1..Len(events) : is_jdk_write(events[k])}}}
    \cup {[before |-> jdkTable, after |-> e.after.root] :
         e \in {events[i] : i \in {k \in 1..Len(events) : is_config_print(events[k])}}}

\* those of a prior document with exactly one container
SingleMerges ==
    {m \in Merges : m.before.st = "doc" /\ Len(Containers(m.before.root)) = 1}

NewEntry == write_shadowenv_interpreter(self)

RECURSIVE Unmatched(_, _)
\* the children (of a container) that are not jdk entries of dir's scope
Unmatched(dir, kids) ==
    IF kids = <<>> THEN <<>>
    ELSE IF is_jdk(Head(kids)) /\ SameScope(dir, Head(kids))
         THEN Unmatched(dir, Tail(kids))
         ELSE <<Head(kids)>> \o Unmatched(dir, Tail(kids))

RECURSIVE OtherKeys(_, _)
\* the children (of a container) that are not jdk entries of dir's key
OtherKeys(dir, kids) ==
    IF kids = <<>> THEN <<>>
    ELSE IF is_jdk(Head(kids)) /\ SameKey(dir, Head(kids))
         THEN OtherKeys(dir, Tail(kids))
         ELSE <<Head(kids)>> \o OtherKeys(dir, Tail(kids))

RECURSIVE SumJdk(_)
SumJdk(s) == IF s = <<>> THEN 0 ELSE NumJdk(Head(s)) + SumJdk(Tail(s))


RECURSIVE IsSubsequence(_, _)
\* a is b with some elements left out, the order kept
IsSubsequence(a, b) ==
    IF a = <<>> THEN TRUE
    ELSE IF b = <<>> THEN FALSE
    ELSE IF Head(a) = Head(b) THEN IsSubsequence(Tail(a), Tail(b))
    ELSE IsSubsequence(a, Tail(b))

\* the entries of a container a run in dir wrote
EntriesFor(dir, container) ==
    {k \in 1..Len(container.kids) :
         is_jdk(container.kids[k]) /\ WrittenFor(dir, container.kids[k])}

\* an entry that the convention cannot place: no name value, or a name
\* without "(" or without ")" after it
Unplaceable(entry) == ~has_name_node(entry) \/ ~FollowsConvention(EntryName(entry))

HasMatch(root) ==
    LET d == descendants(root)
    IN  \E i \in 1..Len(d) : is_element(d[i]) /\ has_ruby_args(d[i])

NamesOnce(attrs) == \A i, j \in 1..Len(attrs) : attrs[i].name = attrs[j].name => i = j

----------------------------------------------------------------------------
(* The claims *)

\* C1 (as claimed): after two merges in a row in the same directory with the
\* same Ruby version, the second reading what the first wrote, every
\* container holds exactly one entry written for that directory.
IdempotentUpsert ==
    ( /\ prev.ran /\ ~prev.me.dry_run /\ ~self.dry_run
      /\ prev.me.current_dir = self.current_dir
      /\ prev.me.ruby_version = self.ruby_version
      /\ \E i \in 1..Len(prev.writes) :
             /\ is_jdk_write(prev.writes[i])
             /\ prev.writes[i].before.st = "doc"
             /\ Containers(prev.writes[i].before.root) # <<>> )
    => \A i \in 1..Len(events) : is_jdk_write(events[i]) =>
           LET cs == Containers(events[i].after.root)
           IN  \A k \in 1..Len(cs) :
                   Cardinality(EntriesFor(self.current_dir, cs[k])) = 1

RemovalIsKeyEquality ==
    \A m \in SingleMerges :
        LET old == ElementKids(Containers(m.before.root)[1])
            new == ElementKids(Containers(m.after)[1])
            kept == OtherKeys(self.current_dir, old)
        IN  /\ new = StripAll(kept) \o <<NewEntry>>
            /\ NumJdk(m.after) = NumJdk(m.before.root) - (SumJdk(old) - SumJdk(kept)) + 1

\* C3 (amended): a child of the container is removed iff it is a jdk whose
\* name carries a parenthesised key of the working directory's scope (the
\* leaf is not compared); every other child is written in place, and no jdk
\* element outside the container's children is removed.
RemovalIsScopeMatch ==
    \A m \in SingleMerges :
        LET old == ElementKids(Containers(m.before.root)[1])
            new == ElementKids(Containers(m.after)[1])
            kept == Unmatched(self.current_dir, old)
        IN  /\ new = StripAll(kept) \o <<NewEntry>>
            /\ NumJdk(m.after) = NumJdk(m.before.root) - (SumJdk(old) - SumJdk(kept)) + 1

\* C3 witness: a real run removed an entry of its scope from a container
\* that also held an element, not a jdk, with a jdk inside.
RemovalIsScopeMatchWitness ==
    \E m \in SingleMerges :
        LET old == ElementKids(Containers(m.before.root)[1])
            kept == Unmatched(self.current_dir, old)
        IN  /\ ~self.dry_run
            /\ Len(kept) < Len(old)
            /\ \E i \in 1..Len(old) : ~is_jdk(old[i]) /\ NumJdk(old[i]) > 0

\* C4: with no jdk.table.xml the document produced is an application root
\* whose only child is the ProjectJdkTable component, whose only child is
\* the jdk entry named for this run.
CreationSkeleton ==
    \A m \in Merges : ~exists(m.before) =>
        /\ m.after.tag = "application"
        /\ m.after.attrs = <<>>
        /\ Len(m.after.kids) = 1
        /\ m.after.kids[1].tag = "component"
        /\ m.after.kids[1].attrs = <<Attr("name", <<"ProjectJdkTable">>)>>
        /\ Len(m.after.kids[1].kids) = 1
        /\ is_jdk(m.after.kids[1].kids[1])
        /\ EntryName(m.after.kids[1].kids[1]) = self.interpreter_name
        /\ NumJdk(m.after) = 1
        /\ Len(Containers(m.after)) = 1

\* C4 witness: a real run wrote jdk.table.xml where none existed.
CreationSkeletonWitness ==
    \E i \in 1..Len(events) :
        is_jdk_write(events[i]) /\ ~exists(events[i].before) /\ jdkTable.st = "doc"

\* C5 (as claimed): when the container holds an entry written for the
\* working directory, the output has no such old entry left, the new entry
\* is the last child, and the children before it are children of the prior
\* container in their order.
ReplaceAndAppend ==
    \A m \in SingleMerges :
        LET old == ElementKids(Containers(m.before.root)[1])
            new == ElementKids(Containers(m.after)[1])
        IN  (\E i \in 1..Len(old) : is_jdk(old[i]) /\ WrittenFor(self.current_dir, old[i]))
            => /\ new # <<>>
               /\ new[Len(new)] = NewEntry
               /\ \A k \in 1..(Len(new) - 1) :
                      ~(is_jdk(new[k]) /\ WrittenFor(self.current_dir, new[k]))
               /\ IsSubsequence(SubSeq(new, 1, Len(new) - 1), StripAll(old))

\* C6 (as claimed): of several ProjectJdkTable components only the first
\* receives the new entry; every later one is written as it was.
FirstContainerWins ==
    \A m \in Merges :
        (m.before.st = "doc" /\ Len(Containers(m.before.root)) > 1) =>
            LET old == Containers(m.before.root)
                new == Containers(m.after)
            IN  /\ Len(new) = Len(old)
                /\ ElementKids(new[1]) # <<>>
                /\ ElementKids(new[1])[Len(ElementKids(new[1]))] = NewEntry
                /\ \A k \in 2..Len(old) : new[k] = Strip(old[k])

\* C7 (as claimed): from a well-formed jdk.table.xml without the container
\* the merge produces a document whose root has the container as a child,
\* holding the new entry.
ContainerSynthesis ==
    \A m \in Merges :
        (m.before.st = "doc" /\ Containers(m.before.root) = <<>>) =>
            \E k \in 1..Len(m.after.kids) :
                /\ is_container(m.after.kids[k])
                /\ \E j \in 1..Len(m.after.kids[k].kids) :
                       m.after.kids[k].kids[j] = NewEntry

\* C8: a jdk child of a container that has no name element with a value,
\* or whose name has no "(" or no ")" after it, is a child of a container
\* of the output, whatever the working directory.
ConservativeRemoval ==
    \A m \in Merges : m.before.st = "doc" =>
        LET old == Containers(m.before.root)
            new == Containers(m.after)
        IN  \A c \in 1..Len(old) : \A i \in 1..Len(old[c].kids) :
                (is_jdk(old[c].kids[i]) /\ Unplaceable(old[c].kids[i])) =>
                    \E d \in 1..Len(new) : \E j \in 1..Len(new[d].kids) :
                        /\ new[d].attrs = old[c].attrs
                        /\ new[d].kids[j] = Strip(old[c].kids[i])

\* C8 witness: a real run in the worktree wt merged into a container that
\* held an entry named "Ruby 3.1.4 (wt/src" with the parenthesis left open.
ConservativeRemovalWitness ==
    \E m \in SingleMerges :
        /\ ~self.dry_run
        /\ extract_worktree_name(self.current_dir) = <<"wt">>
        /\ \E i \in 1..Len(Containers(m.before.root)[1].kids) :
               Containers(m.before.root)[1].kids[i] = KOpen

\* C9 (as claimed): every patched RUBY_ARGS element, written or previewed,
\* carries each attribute name once, and its VALUE is the computed ruby_args.
WellFormedPatch ==
    \A i \in 1..Len(events) :
        (is_workspace_write(events[i])
             \/ (events[i].op = "print" /\ events[i].text = "preview")) =>
            LET d == descendants(events[i].after.root)
            IN  \A k \in 1..Len(d) :
                    (is_element(d[k]) /\ has_ruby_args(d[k])) =>
                        /\ NamesOnce(d[k].attrs)
                        /\ \A a \in 1..Len(d[k].attrs) :
                               d[k].attrs[a].name = "VALUE" =>
                                   d[k].attrs[a].value = generate_ruby_args(RubyMineApp)

\* C10 (as claimed): a real run over workspace files none of which holds a
\* RUBY_ARGS element writes no workspace file, makes no backup of one, does
\* not fail, and does not print that the configuration was updated.
NoMatchIsNoOp ==
    ( /\ ~self.dry_run
      /\ \E i \in 1..Len(events) :
             events[i].op = "print" /\ events[i].text = "Updating Minitest configuration..."
      /\ \A f \in 1..Len(workspace) :
             workspace[f].st = "doc" /\ ~HasMatch(workspace[f].root) )
    => /\ pc # "failed"
       /\ \A i \in 1..Len(events) : ~is_workspace_event(events[i])
       /\ \A i \in 1..Len(events) :
              ~(events[i].op = "print"
                    /\ events[i].text = "Minitest configuration updated successfully!")


\* the log evs holds, in a row, the copy of the prior content old of the
\* target to its backup path, the line that names the backup, and the write
BackupThenWrite(evs, name, idx, old) ==
    \E i \in 3..Len(evs) :
        /\ evs[i].op = "write" /\ evs[i].file = name /\ evs[i].idx = idx
        /\ evs[i].before = old
        /\ evs[i-2] = Copied(name, idx, old)
        /\ evs[i-1] = Printed("Backup created")

\* a step that changes an existing target made a backup of its content
Overwrites(name, idx, old, new) ==
    (new # old /\ exists(old)) =>
        /\ env.copy
        /\ BackupThenWrite(events', name, idx, old)
        /\ \E j \in (Len(backups) + 1)..Len(backups') :
               backups'[j] = Backup(name, idx, old)

\* C11: every step that changes jdk.table.xml, a workspace file,
\* dataSources.xml or dataSources.local.xml that existed before it has
\* copied the prior content to a backup and printed the backup line right
\* before the write; when fs::copy fails no existing target changes; and
\* in every run's log each write of an existing target follows its copy.
BackupPrecedesOverwrite ==
    /\ [][ /\ Overwrites("jdk.table.xml", 0, jdkTable, jdkTable')
           /\ Overwrites("dataSources.xml", 0, dsXml, dsXml')
           /\ Overwrites("dataSources.local.xml", 0, dsLocal, dsLocal')
           /\ Len(workspace') = Len(workspace)
           /\ \A k \in 1..Len(workspace) :
                  Overwrites("workspace.xml", k, workspace[k], workspace'[k]) ]_vars
    /\ [](\A i \in 1..Len(events) :
              (events[i].op = "write" /\ exists(events[i].before)) =>
                  BackupThenWrite(SubSeq(events, 1, i), events[i].file,
                                  events[i].idx, events[i].before))

\* C11 witness: a real run has overwritten an existing jdk.table.xml, an
\* existing workspace file and both existing data source files, each after
\* its backup.
BackupPrecedesOverwriteWitness ==
    /\ pc = "done"
    /\ \A name \in {"jdk.table.xml", "workspace.xml", "dataSources.xml",
                    "dataSources.local.xml"} :
           \E i \in 1..Len(events) :
               /\ events[i].op = "write" /\ events[i].file = name
               /\ exists(events[i].before)
    /\ Len(backups) = 4


\* the last line of a log is the parse error main reports
EndsWithParseError(evs) == evs # <<>> /\ evs[Len(evs)] = Printed("Error: parse")

\* C12 (as claimed): a stage that reads a target that is not well-formed
\* (jdk.table.xml, a workspace file, dataSources.xml) ends the run with an
\* error, leaves that file as it was and makes no backup of it, in a dry
\* run as in a real run.
ParseFailureMeansNoWrite ==
    [][ /\ (pc = "interpreter" /\ env.config_dir /\ jdkTable.st = "malformed") =>
               /\ pc' = "failed" /\ EndsWithParseError(events')
               /\ jdkTable' = jdkTable /\ backups' = backups
        /\ (pc = "minitest" /\ env.config_dir /\ env.app
                /\ \E k \in 1..Len(workspace) : workspace[k].st = "malformed") =>
               /\ pc' = "failed"
               /\ \A k \in 1..Len(workspace) : workspace[k].st = "malformed" =>
                      /\ workspace'[k] = workspace[k]
                      /\ \A j \in (Len(backups) + 1)..Len(backups') :
                             ~(backups'[j].file = "workspace.xml" /\ backups'[j].idx = k)
        /\ (pc = "datasources" /\ env.mysql /\ dsXml.st = "malformed") =>
               /\ pc' = "failed" /\ EndsWithParseError(events')
               /\ dsXml' = dsXml /\ dsLocal' = dsLocal /\ backups' = backups ]_vars


\* the documents of the data source pair a run produced, written or (dry
\* run) printed
is_datasources_doc(e) ==
    \/ (e.op = "write" /\ e.file = "dataSources.xml")
    \/ (e.op = "print" /\ e.text = "# dataSources.xml:")

is_datasources_local_doc(e) ==
    \/ (e.op = "write" /\ e.file = "dataSources.local.xml")
    \/ (e.op = "print" /\ e.text = "# dataSources.local.xml:")

CarriesUuid(file) == file.st = "doc" /\ has_datasource_uuid(file.root)

UuidOf(file) == existing_datasource_uuid(file.root)

\* C13: once dataSources.xml holds a data-source with a uuid, every later
\* step leaves the file with that uuid (the first in document order),
\* whatever the number of runs; and the two documents a run produces hold
\* one and the same uuid, the one of the prior dataSources.xml if it had one.
IdentifierStability ==
    /\ [][ CarriesUuid(dsXml) =>
               (CarriesUuid(dsXml') /\ UuidOf(dsXml') = UuidOf(dsXml)) ]_vars
    /\ [](\A i \in 1..Len(events) : is_datasources_doc(events[i]) =>
              /\ CarriesUuid(events[i].after)
              /\ \A j \in 1..Len(events) : is_datasources_local_doc(events[j]) =>
                     /\ CarriesUuid(events[j].after)
                     /\ UuidOf(events[j].after) = UuidOf(events[i].after)
              /\ (events[i].op = "write" /\ CarriesUuid(events[i].before)) =>
                     UuidOf(events[i].after) = UuidOf(events[i].before)
              /\ (events[i].op = "print" /\ CarriesUuid(dsXml)) =>
                     UuidOf(events[i].after) = UuidOf(dsXml))

\* C13 witness: the first real run minted a uuid for a project whose
\* dataSources.xml had none, and the run in progress, a real one too, read
\* the file that run wrote and wrote both files again.
IdentifierStabilityWitness ==
    /\ prev.ran /\ pc = "done"
    /\ \E w \in 1..Len(prev.writes) :
           /\ prev.writes[w].file = "dataSources.xml"
           /\ ~CarriesUuid(prev.writes[w].before)
           /\ \E i \in 1..Len(events) :
                  /\ events[i].op = "write" /\ events[i].file = "dataSources.xml"
                  /\ events[i].before = written_file(prev.writes[w].after.root)
    /\ \E j \in 1..Len(events) :
           events[j].op = "write" /\ events[j].file = "dataSources.local.xml"


\* C14: no step of a run started with --dry-run creates a directory,
\* changes a file or adds a backup, and all such a run does is print.
DryRunIsReadOnly ==
    /\ [][ (self'.dry_run /\ self' # NoSelf) =>
               /\ optionsDir' = optionsDir /\ ideaDir' = ideaDir
               /\ jdkTable' = jdkTable /\ workspace' = workspace
               /\ dsXml' = dsXml /\ dsLocal' = dsLocal
               /\ backups' = backups ]_vars
    /\ []((self.dry_run /\ self # NoSelf) =>
              \A i \in 1..Len(events) : events[i].op = "print")

\* C14 witness: a dry run came to its end in a project where jdk.table.xml,
\* a workspace file and the data source pair existed, and printed the three
\* configurations.
DryRunIsReadOnlyWitness ==
    /\ self.dry_run /\ self # NoSelf /\ pc = "done"
    /\ exists(jdkTable) /\ workspace # <<>> /\ exists(dsXml) /\ exists(dsLocal)
    /\ \E i \in 1..Len(events) : is_config_print(events[i])
    /\ \E i \in 1..Len(events) : events[i].op = "print" /\ events[i].text = "preview"
    /\ \E i \in 1..Len(events) : is_datasources_doc(events[i])


is_comment(n) == n.kind = "comment"

is_preserved(n) == is_content(n) \/ is_comment(n)

RECURSIVE Untouched(_, _)
RECURSIVE UntouchedKids(_, _, _)
\* the prior tree with nothing but the merge applied: blank text left out,
\* the entries of dir's scope taken out of a container and the new entry
\* appended to it, every comment, text and other element where it was
Untouched(dir, n) ==
    IF ~is_element(n) THEN n
    ELSE [n EXCEPT !.kids = UntouchedKids(dir, is_container(n), n.kids)
                                \o (IF is_container(n) THEN <<NewEntry>> ELSE <<>>)]

UntouchedKids(dir, in_container, kids) ==
    IF kids = <<>> THEN <<>>
    ELSE LET child == Head(kids)
             rest == UntouchedKids(dir, in_container, Tail(kids))
         IN  IF ~is_preserved(child) THEN rest
             ELSE IF in_container /\ is_jdk(child) /\ SameScope(dir, child) THEN rest
             ELSE <<Untouched(dir, child)>> \o rest

\* C15 (as claimed): the document a merge produces is the prior document
\* with the entries of the working directory taken out of the container and
\* the new entry appended, every other element, attribute, comment and
\* text that is not blank in its place.
UntouchedContentSurvives ==
    \A m \in SingleMerges : m.after = Untouched(self.current_dir, m.before.root)


is_match(n) == is_element(n) /\ has_ruby_args(n)

\* the RUBY_ARGS elements of a tree, in document order
Matches(tree) == SelectSeq(descendants(tree), is_match)

\* C16 (as claimed): when a workspace file with several RUBY_ARGS elements
\* is written, the first of them carries the new VALUE and every later one
\* is in the output as it was.
PatchAtFirstMatchOnly ==
    \A i \in 1..Len(events) :
        (is_workspace_write(events[i]) /\ Len(Matches(events[i].before.root)) > 1) =>
            LET old == Matches(events[i].before.root)
                new == Matches(events[i].after.root)
            IN  /\ Len(new) = Len(old)
                /\ \E a \in 1..Len(new[1].attrs) :
                       new[1].attrs[a] = Attr("VALUE", generate_ruby_args(RubyMineApp))
                /\ \A k \in 2..Len(old) : new[k] = old[k]


RECURSIVE Mask(_)
RECURSIVE MaskAll(_)
\* a tree without its blank text, each RUBY_ARGS element replaced by a mark
Mask(n) ==
    IF ~is_element(n) THEN n
    ELSE IF has_ruby_args(n) THEN Elem("RUBY_ARGS", <<>>, <<>>)
    ELSE [n EXCEPT !.kids = MaskAll(SelectSeq(n.kids, is_content))]

MaskAll(s) == IF s = <<>> THEN <<>> ELSE <<Mask(Head(s))>> \o MaskAll(Tail(s))

\* C17 (as claimed): in a workspace file that is written, every RUBY_ARGS
\* element has the child elements and the text it had, and everything
\* outside the RUBY_ARGS elements is as it was.
PatchKeepsContent ==
    \A i \in 1..Len(events) : is_workspace_write(events[i]) =>
        LET old == Matches(events[i].before.root)
            new == Matches(events[i].after.root)
        IN  /\ Mask(events[i].after.root) = Mask(events[i].before.root)
            /\ Len(new) = Len(old)
            /\ \A k \in 1..Len(old) : new[k].kids = Strip(old[k]).kids


\* whether update_workspace_minitest_config writes this file
WouldWrite(file, ruby_args) ==
    file.st = "doc" /\ write_workspace_element(file.root, ruby_args, FALSE).updated

\* the position in the log of the line printed first by the loop over the
\* workspace files of a dry run, 0 before the loop
PreviewsStart ==
    IF \E i \in 1..Len(events) : events[i] = Printed("# Updated RUBY_ARGS")
    THEN CHOOSE i \in 1..Len(events) : events[i] = Printed("# Updated RUBY_ARGS")
    ELSE 0

\* what the dry run printed for the k-th workspace file
PreviewOf(k) == events[PreviewsStart + 3 * k - 1]

ShowsPatch(e) == e.text = "preview" /\ Matches(e.after.root) # <<>>

\* C18 (as claimed): what a dry run prints for a workspace file is a
\* document with a patched RUBY_ARGS element exactly when a real run would
\* write that file, and then it is the document the real run would write.
PreviewAgreesWithRealRun ==
    (self.dry_run /\ PreviewsStart > 0) =>
        \A k \in 1..Len(workspace) :
            LET ruby_args == generate_ruby_args(RubyMineApp)
            IN  /\ ShowsPatch(PreviewOf(k)) <=> WouldWrite(workspace[k], ruby_args)
                /\ ShowsPatch(PreviewOf(k)) =>
                       PreviewOf(k).after.root =
                           write_workspace_element(workspace[k].root, ruby_args,
                                                   FALSE).written[1]


\* the entries of the table that is_same_worktree_interpreter matches for a
\* run in directory dir
MatchedBy(dir, container) ==
    {k \in 1..Len(container.kids) :
         /\ is_jdk(container.kids[k])
         /\ has_name_node(container.kids[k])
         /\ is_same_worktree_interpreter(dir, EntryName(container.kids[k]))}

\* C19 (as claimed): after real runs made one after another in any
\* directories, starting without jdk.table.xml, the file has one
\* ProjectJdkTable container, and for the directory of the run before and
\* that of the run just made at most one of its entries is matched by the
\* directory's identity predicate.
OneEntryPerIdentity ==
    (jdkTable.st = "doc" /\ self # NoSelf /\ ~self.dry_run
         /\ pc \in {"minitest", "datasources", "done"}) =>
        /\ Len(Containers(jdkTable.root)) = 1
        /\ Cardinality(MatchedBy(self.current_dir, Containers(jdkTable.root)[1])) <= 1
        /\ (prev.ran /\ ~prev.me.dry_run /\ prev.result = "done") =>
               Cardinality(MatchedBy(prev.me.current_dir,
                                     Containers(jdkTable.root)[1])) <= 1


\* the lines main prints for the error a stage returned
Errors ==
    {"Error: Could not find ruby in PATH", "Error: Could not determine Ruby version",
     "Error: No RubyMine configuration directory found", "Error: RubyMine.app not found",
     "Error: parse", "Error: copy"}

is_error(e) == e.op = "print" /\ e.text \in Errors

\* the content now at the path an event names
FileAt(name, idx) ==
    IF name = "jdk.table.xml" THEN jdkTable
    ELSE IF name = "workspace.xml" THEN workspace[idx]
    ELSE IF name = "dataSources.xml" THEN dsXml
    ELSE dsLocal

\* a step that starts no run keeps the log of the run and adds to it
ExtendsLog ==
    /\ Len(events') >= Len(events)
    /\ SubSeq(events', 1, Len(events)) = events

\* C20: a run goes through fact detection, interpreter, minitest and
\* datasources in that order, each stage touching its own files only; a
\* stage that returns an error ends the run with one error line, the last
\* of the log, and until the next run starts nothing is written or backed
\* up; what the run wrote and backed up before the error stays as written;
\* and a run whose Ruby path or version is empty ends at once, having done
\* nothing but print the error.
StageOrderAndAbort ==
    /\ [][
          /\ (pc \in {"idle", "done", "failed"}) =>
                 /\ pc' \in {"interpreter", "failed"}
                 /\ runs' = runs + 1
                 /\ UNCHANGED <<optionsDir, jdkTable, workspace, ideaDir, dsXml,
                                dsLocal, backups>>
          /\ (pc = "interpreter") =>
                 /\ pc' \in {"minitest", "failed"}
                 /\ ExtendsLog
                 /\ UNCHANGED <<runs, workspace, ideaDir, dsXml, dsLocal>>
          /\ (pc = "minitest") =>
                 /\ pc' \in {"datasources", "failed"}
                 /\ ExtendsLog
                 /\ UNCHANGED <<runs, optionsDir, jdkTable, ideaDir, dsXml, dsLocal>>
          /\ (pc = "datasources") =>
                 /\ pc' \in {"done", "failed"}
                 /\ ExtendsLog
                 /\ UNCHANGED <<runs, optionsDir, jdkTable, workspace>>
          /\ Len(backups') >= Len(backups)
          /\ SubSeq(backups', 1, Len(backups)) = backups
       ]_vars
    /\ [](
          /\ (pc = "failed") =>
                 /\ events # <<>> /\ is_error(events[Len(events)])
                 /\ \A i \in 1..(Len(events) - 1) : ~is_error(events[i])
          /\ (pc # "failed") => \A i \in 1..Len(events) : ~is_error(events[i])
          /\ \A i \in 1..Len(events) :
                 /\ (events[i].op = "write") =>
                        FileAt(events[i].file, events[i].idx)
                            = written_file(events[i].after.root)
                 /\ (events[i].op = "copy") =>
                        \E j \in 1..Len(backups) :
                            backups[j] = Backup(events[i].file, events[i].idx,
                                                events[i].before)
          /\ (runs > 0 /\ (self.ruby_wrapper_path = <<>> \/ self.ruby_version = <<>>)) =>
                 /\ pc = "failed"
                 /\ Len(events) = 1
       )

\* C20 witness: the run before this one ended in fact detection; this one,
\* a real run, wrote jdk.table.xml and a workspace file, then failed in a
\* later step, and both files are as it wrote them.
StageOrderAndAbortWitness ==
    /\ prev.ran /\ prev.result = "failed" /\ prev.me = NoSelf /\ prev.writes = <<>>
    /\ pc = "failed" /\ self # NoSelf /\ ~self.dry_run
    /\ \E i, j \in 1..Len(events) :
           /\ i < j
           /\ events[i].op = "write" /\ events[i].file = "jdk.table.xml"
           /\ jdkTable = written_file(events[i].after.root)
           /\ events[j].op = "write" /\ events[j].file = "workspace.xml"
           /\ workspace[events[j].idx] = written_file(events[j].after.root)

====
